---- MODULE Spec2Model ----
(***************************************************************************)
(* Model of scripts/generate_essentials_catalog.py: the row filter, the    *)
(* row normalizer (process_product and its two parsers), the ranker and    *)
(* the catalog writer of main.                                             *)
(*                                                                         *)
(* A Python str is a sequence of one-character strings.  A dict value that *)
(* is None, and a key that the dict does not hold, are the two sentinels   *)
(* None and Absent.  A float is the exact rational [num, den].             *)
(***************************************************************************)
EXTENDS Integers, Sequences, FiniteSets, TLC

(* ------------------------------ bounds --------------------------------- *)

\* Rows main's loop reads before the input file ends.
MaxRows == 3

\* The --limit values tried are -NegLimits .. MaxLimit.
NegLimits == 1

MaxLimit == 3

\* Length of the ingredient texts enumerated exhaustively.
MaxTextLen == 4

\* The long ingredient texts hold up to MAX_INGREDIENTS + ExtraFragments
\* fragments.
ExtraFragments == 2

(* --------------------------- Python values ----------------------------- *)

None == <<"<None>">>

Absent == <<"<absent>">>

IsStr(v) == v # None /\ v # Absent

\* dict.get(key, default)
Get(row, key, default) == IF row[key] = Absent THEN default ELSE row[key]

\* Truthiness of a str or None.
Truthy(v) == v # None /\ v # <<>>

Whitespace == {" ", "\t", "\n", "\r", "\f"}

UpperCase == <<"A","B","C","D","E","F","G","H","I","J","K","L","M",
               "N","O","P","Q","R","S","T","U","V","W","X","Y","Z">>

LowerCase == <<"a","b","c","d","e","f","g","h","i","j","k","l","m",
               "n","o","p","q","r","s","t","u","v","w","x","y","z">>

ToLower ==
    [c \in {UpperCase[i] : i \in 1..26} |-> LowerCase[CHOOSE i \in 1..26 : UpperCase[i] = c]]

LowerChar(c) == IF c \in DOMAIN ToLower THEN ToLower[c] ELSE c

\* str.lower()
Lower(s) == [i \in 1..Len(s) |-> LowerChar(s[i])]

RECURSIVE LStrip(_)
LStrip(s) ==
    IF s # <<>> /\ Head(s) \in Whitespace THEN LStrip(Tail(s)) ELSE s

RECURSIVE RStrip(_)
RStrip(s) ==
    IF s # <<>> /\ s[Len(s)] \in Whitespace
    THEN RStrip(SubSeq(s, 1, Len(s) - 1))
    ELSE s

\* str.strip()
Strip(s) == RStrip(LStrip(s))

\* sub in s
Contains(sub, s) ==
    \E i \in 1..(Len(s) - Len(sub) + 1) : SubSeq(s, i, i + Len(sub) - 1) = sub

\* s.find(sub) + 1 from position i on, for a sub that occurs there
RECURSIVE FirstIndexFrom(_, _, _)
FirstIndexFrom(sub, s, i) ==
    IF SubSeq(s, i, i + Len(sub) - 1) = sub THEN i ELSE FirstIndexFrom(sub, s, i + 1)

FirstIndex(sub, s) == FirstIndexFrom(sub, s, 1)

\* str.split(sep), sep non-empty
RECURSIVE Split(_, _)
Split(s, sep) ==
    IF ~Contains(sep, s)
    THEN <<s>>
    ELSE LET i == FirstIndex(sep, s)
         IN  <<SubSeq(s, 1, i - 1)>> \o Split(SubSeq(s, i + Len(sep), Len(s)), sep)

\* The first whitespace-delimited token of a stripped string.
RECURSIVE Token(_)
Token(s) ==
    IF s = <<>> \/ Head(s) \in Whitespace THEN <<>> ELSE <<Head(s)>> \o Token(Tail(s))

\* str.split()[0]: the fragments of split() are never empty, so the list is
\* empty (IndexError) exactly when the string holds nothing but whitespace.
SplitFirst(s) ==
    IF LStrip(s) = <<>> THEN [ok |-> FALSE, val |-> <<>>]
    ELSE [ok |-> TRUE, val |-> Token(LStrip(s))]

Digits == <<"0","1","2","3","4","5","6","7","8","9">>

IsDigit(c) == \E i \in 1..10 : Digits[i] = c

DigitVal(c) == (CHOOSE i \in 1..10 : Digits[i] = c) - 1

RECURSIVE DecVal(_)
DecVal(s) == IF s = <<>> THEN 0 ELSE 10 * DecVal(SubSeq(s, 1, Len(s) - 1)) + DigitVal(s[Len(s)])

\* The signed decimal integer literals int() and float() both accept:
\* optional surrounding whitespace, an optional sign, one or more digits.
\* Every other string over the alphabets used here (letters, punctuation,
\* blanks; no '.', 'e', '_', "inf", "nan") raises ValueError in both.
ParseInteger(s) ==
    LET t == Strip(s)
        signed == t # <<>> /\ Head(t) \in {"+", "-"}
        body == IF signed THEN Tail(t) ELSE t
    IN  IF body # <<>> /\ \A i \in 1..Len(body) : IsDigit(body[i])
        THEN [ok |-> TRUE,
              val |-> IF signed /\ Head(t) = "-" THEN 0 - DecVal(body) ELSE DecVal(body)]
        ELSE [ok |-> FALSE, val |-> 0]

(* ----------------------------- the parsers ------------------------------ *)

Float(n) == [num |-> n, den |-> 1]

\* parse_nutrition_value: 0.0 for None, empty and blank values; otherwise
\* float() of the first token when the value holds a ' ', of the whole value
\* when it does not; 0.0 on ValueError and IndexError.
parse_nutrition_value(value) ==
    IF ~Truthy(value) \/ Strip(value) = <<>>
    THEN Float(0)
    ELSE LET first == SplitFirst(value)
             cleaned == IF Contains(<<" ">>, value) THEN first.val ELSE value
             parsed == ParseInteger(cleaned)
         IN  IF Contains(<<" ">>, value) /\ ~first.ok THEN Float(0)
             ELSE IF parsed.ok THEN Float(parsed.val)
             ELSE Float(0)

MAX_INGREDIENTS == 20

Separators == << <<",", " ">>, <<";", " ">>, <<" ", "-", " ">> >>

\* [i.strip().lower() for i in parts if i.strip()]
RECURSIVE CleanParts(_)
CleanParts(parts) ==
    IF parts = <<>> THEN <<>>
    ELSE (IF Strip(Head(parts)) # <<>> THEN <<Lower(Strip(Head(parts)))>> ELSE <<>>)
         \o CleanParts(Tail(parts))

\* list[:n]: the first n elements, all of them when n exceeds the length; a
\* negative n counts from the end, leaving out the last -n elements.
SliceTo(list, n) ==
    LET stop == IF n >= 0 THEN n ELSE Len(list) + n
    IN  SubSeq(list, 1, IF stop > Len(list) THEN Len(list) ELSE IF stop < 0 THEN 0 ELSE stop)

\* parse_ingredients: the for loop stops at the first separator that occurs
\* in the text; the fallback runs whenever the list is still empty.
parse_ingredients(ingredients_text) ==
    IF ~Truthy(ingredients_text) \/ Strip(ingredients_text) = <<>>
    THEN <<>>
    ELSE LET found == {k \in 1..Len(Separators) : Contains(Separators[k], ingredients_text)}
             ingredients ==
                 IF found = {} THEN <<>>
                 ELSE LET sep == Separators[CHOOSE k \in found : \A m \in found : k <= m]
                      IN  CleanParts(Split(ingredients_text, sep))
         IN  SliceTo(IF ingredients = <<>>
                     THEN <<Lower(Strip(ingredients_text))>>
                     ELSE ingredients,
                     MAX_INGREDIENTS)

(* --------------------------- process_product --------------------------- *)

NutritionColumns ==
    [calories      |-> "energy-kcal_100g",
     protein       |-> "proteins_100g",
     carbohydrates |-> "carbohydrates_100g",
     fat           |-> "fat_100g",
     saturatedFat  |-> "saturated-fat_100g",
     fiber         |-> "fiber_100g",
     sugar         |-> "sugars_100g",
     sodium        |-> "sodium_100g"]

NutritionFields == DOMAIN NutritionColumns

Fields ==
    {"countries_tags", "code", "product_name", "brands", "categories_en",
     "serving_size", "ingredients_text", "unique_scans_n"}
    \cup {NutritionColumns[f] : f \in NutritionFields}

MIN_BARCODE_LEN == 8

OTHER_CATEGORY == <<"o", "t", "h", "e", "r">>

NoIngredients == <<None>>

\* The nutrition dict of lines 69-78; sodium is divided by 1000.
Nutrition(row) ==
    [f \in NutritionFields |->
        LET v == parse_nutrition_value(Get(row, NutritionColumns[f], <<>>))
        IN  IF f = "sodium" THEN [num |-> v.num, den |-> 1000] ELSE v]

Category(row) ==
    IF Truthy(Get(row, "categories_en", None))
    THEN Strip(Split(Get(row, "categories_en", <<>>), <<",">>)[1])
    ELSE OTHER_CATEGORY

\* x.strip() or None
StripOrNone(v) == IF Strip(v) = <<>> THEN None ELSE Strip(v)

Raised == [status |-> "AttributeError"]

Rejected == [status |-> "None"]

\* process_product, statement by statement: .strip() on a None value raises
\* AttributeError at lines 61, 62, 84 and 86.
process_product(row) ==
    IF Get(row, "code", <<>>) = None \/ Get(row, "product_name", <<>>) = None
    THEN Raised
    ELSE
    LET barcode == Strip(Get(row, "code", <<>>))
        name == Strip(Get(row, "product_name", <<>>))
        nutrition == Nutrition(row)
    IN  IF barcode = <<>> \/ name = <<>> \/ Len(barcode) < MIN_BARCODE_LEN
        THEN Rejected
        ELSE IF /\ nutrition.calories.num = 0
                /\ nutrition.protein.num = 0
                /\ nutrition.carbohydrates.num = 0
        THEN Rejected
        ELSE IF Get(row, "brands", <<>>) = None \/ Get(row, "serving_size", <<>>) = None
        THEN Raised
        ELSE LET ingredients == parse_ingredients(Get(row, "ingredients_text", <<>>))
             IN  [status |-> "item",
                  item |-> [barcode     |-> barcode,
                            name        |-> name,
                            brand       |-> StripOrNone(Get(row, "brands", <<>>)),
                            category    |-> Lower(Category(row)),
                            nutrition   |-> nutrition,
                            servingSize |-> StripOrNone(Get(row, "serving_size", <<>>)),
                            ingredients |-> IF ingredients # <<>> THEN ingredients
                                            ELSE NoIngredients]]

(* -------------------------------- main --------------------------------- *)

VARIABLES
    pc,           \* "reading": in the loop of lines 121-136; "done": catalog
                  \* written; "aborted": an exception left main
    limit,        \* args.limit
    input,        \* the rows the reader has yielded so far
    products,     \* the list of (scans, product) tuples; row_no is the
                  \* position of the tuple's row in input (history)
    skipped,      \* the skipped counter
    catalog,      \* the dict written to the output file, NoCatalog before
    selected,     \* row_no of each element of catalog.products (history)
    normalized,   \* row_no of the rows passed to process_product (history)
    arg_text,     \* argument of a lone parse_ingredients call
    ret_text,     \* its result, <<>> before the call
    arg_row,      \* argument of a lone process_product call
    ret_row       \* its result, NotCalled before the call

vars == <<pc, limit, input, products, skipped, catalog, selected, normalized,
          arg_text, ret_text, arg_row, ret_row>>

mainVars == <<pc, limit, input, products, skipped, catalog, selected, normalized>>

callVars == <<arg_text, ret_text, arg_row, ret_row>>

NoCatalog == [version |-> <<>>]

NotCalled == [status |-> "not called"]

VERSION == <<"1", ".", "0", ".", "0">>

UNITED_STATES == <<"u","n","i","t","e","d","-","s","t","a","t","e","s">>

EN_UNITED_STATES == <<"e","n",":">> \o UNITED_STATES

\* CountryFilter with the second test's "not" lost: no row is dropped.
CountryFilterLostNot(row) ==
    IF Get(row, "countries_tags", <<>>) = None THEN "raise"
    ELSE LET countries == Lower(Get(row, "countries_tags", <<>>))
         IN  IF ~Contains(UNITED_STATES, countries) /\ Contains(EN_UNITED_STATES, countries)
             THEN "continue"
             ELSE "keep"

\* Lines 123-125: "raise" when countries_tags is None (None has no lower()),
\* "continue" when neither tag occurs, "keep" otherwise.
CountryFilter(row) ==
    IF Get(row, "countries_tags", <<>>) = None THEN "raise"
    ELSE LET countries == Lower(Get(row, "countries_tags", <<>>))
         IN  IF ~Contains(UNITED_STATES, countries) /\ ~Contains(EN_UNITED_STATES, countries)
             THEN "continue"
             ELSE "keep"

\* Lines 130-133: int(row.get('unique_scans_n', '0') or '0'), 0 on ValueError.
Scans(row) ==
    LET raw == Get(row, "unique_scans_n", <<"0">>)
        parsed == ParseInteger(IF Truthy(raw) THEN raw ELSE <<"0">>)
    IN  IF parsed.ok THEN parsed.val ELSE 0

\* InsertDesc for a sort that is not stable: the element goes in front of
\* the elements with an equal key.
RECURSIVE InsertDescTiesFirst(_, _)
InsertDescTiesFirst(sorted, e) ==
    IF sorted = <<>> THEN <<e>>
    ELSE IF Head(sorted).scans > e.scans
    THEN <<Head(sorted)>> \o InsertDescTiesFirst(Tail(sorted), e)
    ELSE <<e>> \o sorted

\* One step of list.sort(key=lambda x: x[0], reverse=True): the element goes
\* behind every element whose key is not smaller, so equal keys keep their
\* order.
RECURSIVE InsertDesc(_, _)
InsertDesc(sorted, e) ==
    IF sorted = <<>> THEN <<e>>
    ELSE IF Head(sorted).scans >= e.scans
    THEN <<Head(sorted)>> \o InsertDesc(Tail(sorted), e)
    ELSE <<e>> \o sorted

RECURSIVE SortByScansDesc(_)
SortByScansDesc(list) ==
    IF list = <<>> THEN <<>>
    ELSE InsertDesc(SortByScansDesc(SubSeq(list, 1, Len(list) - 1)), list[Len(list)])

\* TopProducts with the slice one element too long.
TopProductsOneMore(sorted, n) == SliceTo(sorted, n + 1)

\* products[:args.limit]
TopProducts(sorted, n) == SliceTo(sorted, n)

\* LoopBody with the counter also incremented for a row the country filter
\* drops.
LoopBodyCountsDropped(row, acc, count, row_no) ==
    LET filter == CountryFilter(row)
        product == process_product(row)
    IN  IF filter = "raise"
        THEN [pc |-> "aborted", products |-> acc, skipped |-> count, called |-> FALSE]
        ELSE IF filter = "continue"
        THEN [pc |-> "reading", products |-> acc, skipped |-> count + 1, called |-> FALSE]
        ELSE IF product.status = "AttributeError"
        THEN [pc |-> "aborted", products |-> acc, skipped |-> count, called |-> TRUE]
        ELSE IF product.status = "item"
        THEN [pc |-> "reading",
              products |-> Append(acc, [scans |-> Scans(row),
                                        product |-> product.item,
                                        row_no |-> row_no]),
              skipped |-> count, called |-> TRUE]
        ELSE [pc |-> "reading", products |-> acc, skipped |-> count + 1, called |-> TRUE]

\* The body of the loop of lines 121-136 for one row, given the list and the
\* counter before it; called is whether process_product was called.
LoopBody(row, acc, count, row_no) ==
    LET filter == CountryFilter(row)
        product == process_product(row)
    IN  IF filter = "raise"
        THEN [pc |-> "aborted", products |-> acc, skipped |-> count, called |-> FALSE]
        ELSE IF filter = "continue"
        THEN [pc |-> "reading", products |-> acc, skipped |-> count, called |-> FALSE]
        ELSE IF product.status = "AttributeError"
        THEN [pc |-> "aborted", products |-> acc, skipped |-> count, called |-> TRUE]
        ELSE IF product.status = "item"
        THEN [pc |-> "reading",
              products |-> Append(acc, [scans |-> Scans(row),
                                        product |-> product.item,
                                        row_no |-> row_no]),
              skipped |-> count, called |-> TRUE]
        ELSE [pc |-> "reading", products |-> acc, skipped |-> count + 1, called |-> TRUE]

(* ------------------------------- inputs -------------------------------- *)

US_MIXED_CASE == <<"e", "n", ":", "f", "r", "a", "n", "c", "e", ",", "E", "N", ":", "U", "n", "i", "t", "e", "d", "-", "S", "t", "a", "t", "e", "s">>

FRANCE == <<"e", "n", ":", "f", "r", "a", "n", "c", "e">>

CODE8 == <<"1", "2", "3", "4", "5", "6", "7", "8">>

CODE7 == <<"1", "2", "3", "4", "5", "6", "7">>

TEA == <<"T", "e", "a">>

ACME == <<"A", "c", "m", "e">>

SNACKS_SWEET == <<"S", "n", "a", "c", "k", "s", ",", "S", "w", "e", "e", "t">>

ONE_CUP == <<"1", " ", "c", "u", "p">>

WATER_SUGAR == <<"W", "a", "t", "e", "r", ",", " ", "S", "u", "g", "a", "r", ",", " ", "S", "a", "l", "t">>

EmptyRow == [f \in Fields |-> Absent]

\* A US product with every field of interest filled in.
GoodRow ==
    [EmptyRow EXCEPT
        !["countries_tags"] = EN_UNITED_STATES,
        !["code"] = CODE8,
        !["product_name"] = TEA,
        !["brands"] = ACME,
        !["categories_en"] = SNACKS_SWEET,
        !["serving_size"] = ONE_CUP,
        !["ingredients_text"] = WATER_SUGAR,
        !["energy-kcal_100g"] = <<"5">>,
        !["fat_100g"] = <<"9">>,
        !["sodium_100g"] = <<"2", "0", "0">>,
        !["unique_scans_n"] = <<"1", "0">>]

\* The rows main's loop is fed.
MainRows ==
    {GoodRow,
     [GoodRow EXCEPT !["unique_scans_n"] = <<"5", "0">>],
     [GoodRow EXCEPT !["unique_scans_n"] = <<"3", "0">>, !["brands"] = Absent],
     [GoodRow EXCEPT !["unique_scans_n"] = Absent, !["energy-kcal_100g"] = <<"-", "5", " ", "g">>,
                     !["categories_en"] = <<" ">>],
     [GoodRow EXCEPT !["unique_scans_n"] = <<"x">>, !["countries_tags"] = UNITED_STATES,
                     !["ingredients_text"] = <<",", " ">>],
     [GoodRow EXCEPT !["unique_scans_n"] = <<"5", "0">>, !["countries_tags"] = FRANCE],
     [GoodRow EXCEPT !["countries_tags"] = US_MIXED_CASE, !["energy-kcal_100g"] = <<"0">>],
     [GoodRow EXCEPT !["countries_tags"] = None],
     [GoodRow EXCEPT !["brands"] = None]}

Limits == (0 - NegLimits)..MaxLimit

IngredientChars == {"a", "B", ",", ";", "-", " "}

RECURSIVE Joined(_, _, _)
Joined(fragment, sep, n) ==
    IF n = 1 THEN fragment ELSE Joined(fragment, sep, n - 1) \o sep \o fragment

\* The ingredient texts parse_ingredients is called with: None, every text of
\* at most MaxTextLen characters, and texts of up to MAX_INGREDIENTS +
\* ExtraFragments fragments for each separator.
IngredientTexts ==
    {None}
    \cup UNION {[1..n -> IngredientChars] : n \in 0..MaxTextLen}
    \cup {Joined(<<"O", "a", "t">>, Separators[k], n) :
            k \in 1..Len(Separators), n \in 1..(MAX_INGREDIENTS + ExtraFragments)}

\* The rows process_product is called with.
ProductRows ==
    {[GoodRow EXCEPT
        !["code"] = code,
        !["product_name"] = name,
        !["energy-kcal_100g"] = calories,
        !["proteins_100g"] = protein,
        !["carbohydrates_100g"] = carbohydrates,
        !["fat_100g"] = fat,
        !["brands"] = brand,
        !["categories_en"] = categories,
        !["serving_size"] = serving] :
        code \in {CODE8, <<" ">> \o CODE7 \o <<" ">>, <<>>, Absent, None},
        name \in {TEA, <<" ">>, Absent},
        calories \in {<<"0">>, <<"5", " ", "g">>, <<"-", "5">>, <<"k", "c", "a", "l">>, None, Absent},
        protein \in {<<"0">>, Absent},
        carbohydrates \in {<<"0">>, <<"5">>},
        fat \in {<<"9">>, Absent},
        brand \in {ACME, <<" ">>, None},
        categories \in {SNACKS_SWEET, <<" ", ",", "S", "n", "a", "c", "k", "s">>, <<" ">>, <<>>, None, Absent},
        serving \in {ONE_CUP, None}}

(* ------------------------------- actions ------------------------------- *)

NoCall ==
    /\ arg_text = <<>>
    /\ ret_text = <<>>
    /\ arg_row = EmptyRow
    /\ ret_row = NotCalled

\* main up to the loop: the parsed arguments and the empty accumulators.
Init ==
    /\ pc = "reading"
    /\ limit \in Limits
    /\ input = <<>>
    /\ products = <<>>
    /\ skipped = 0
    /\ catalog = NoCatalog
    /\ selected = <<>>
    /\ normalized = {}
    /\ NoCall

\* One iteration of the loop of lines 121-136.
ReadRow(row) ==
    /\ pc = "reading"
    /\ Len(input) < MaxRows
    /\ LET after == LoopBody(row, products, skipped, Len(input) + 1)
       IN  /\ pc' = after.pc
           /\ products' = after.products
           /\ skipped' = after.skipped
           /\ normalized' = IF after.called THEN normalized \cup {Len(input) + 1}
                            ELSE normalized
    /\ input' = Append(input, row)
    /\ UNCHANGED <<limit, catalog, selected, callVars>>

\* The reader is exhausted: lines 138-156 sort the list in place, take the
\* top args.limit products and write the catalog (generatedAt, the clock's
\* reading, is left out).
WriteCatalog ==
    /\ pc = "reading"
    /\ LET sorted == SortByScansDesc(products)
           top == TopProducts(sorted, limit)
       IN  /\ products' = sorted
           /\ catalog' = [version |-> VERSION,
                          productCount |-> Len(top),
                          products |-> [i \in 1..Len(top) |-> top[i].product]]
           /\ selected' = [i \in 1..Len(top) |-> top[i].row_no]
    /\ pc' = "done"
    /\ UNCHANGED <<limit, input, skipped, normalized, callVars>>

Next ==
    \/ \E row \in MainRows : ReadRow(row)
    \/ WriteCatalog

Spec == Init /\ [][Next]_vars

(* ------------------- the functions called on their own ----------------- *)

InitMainIdle ==
    /\ limit = 0
    /\ input = <<>>
    /\ products = <<>>
    /\ skipped = 0
    /\ catalog = NoCatalog
    /\ selected = <<>>
    /\ normalized = {}

InitIngredients ==
    /\ pc = "call"
    /\ InitMainIdle
    /\ arg_text \in IngredientTexts
    /\ ret_text = <<>>
    /\ arg_row = EmptyRow
    /\ ret_row = NotCalled

CallParseIngredients ==
    /\ pc = "call"
    /\ ret_text' = parse_ingredients(arg_text)
    /\ pc' = "returned"
    /\ UNCHANGED <<limit, input, products, skipped, catalog, selected, normalized,
                   arg_text, arg_row, ret_row>>

NextIngredients == CallParseIngredients

SpecIngredients == InitIngredients /\ [][NextIngredients]_vars

InitProduct ==
    /\ pc = "call"
    /\ InitMainIdle
    /\ arg_text = <<>>
    /\ ret_text = <<>>
    /\ arg_row \in ProductRows
    /\ ret_row = NotCalled

CallProcessProduct ==
    /\ pc = "call"
    /\ ret_row' = process_product(arg_row)
    /\ pc' = "returned"
    /\ UNCHANGED <<limit, input, products, skipped, catalog, selected, normalized,
                   arg_text, ret_text, arg_row>>

NextProduct == CallProcessProduct

SpecProduct == InitProduct /\ [][NextProduct]_vars

(* ------------------------------ properties ----------------------------- *)

TextOf(v) == IF IsStr(v) THEN v ELSE <<>>

\* The rows whose loop iteration ran to its end.
Completed == IF pc = "aborted" THEN SubSeq(input, 1, Len(input) - 1) ELSE input

CompletedNos == 1..Len(Completed)

\* The lowercased countries_tags holds neither tag.
IsForeign(row) ==
    LET countries == Lower(TextOf(row["countries_tags"]))
    IN  ~Contains(UNITED_STATES, countries) /\ ~Contains(EN_UNITED_STATES, countries)

\* What became of each completed row: "foreign" when it has no US tag, else
\* the status of process_product's result.
Verdicts ==
    [k \in CompletedNos |->
        IF IsForeign(input[k]) THEN "foreign" ELSE process_product(input[k]).status]

Scores == [k \in 1..Len(input) |-> Scans(input[k])]

SelectedNos == {selected[i] : i \in 1..Len(selected)}

Min(a, b) == IF a < b THEN a ELSE b

Max(a, b) == IF a > b THEN a ELSE b

\* C1: the products of the written catalog are in non-increasing order of
\* scan count, and two products with equal scan counts are in the order of
\* their rows in the input file.
C1_SortedStable ==
    pc = "done" =>
        LET score == Scores
        IN  /\ Len(catalog.products) = Len(selected)
            /\ \A i, j \in 1..Len(selected) :
                  i < j =>
                     /\ score[selected[i]] >= score[selected[j]]
                     /\ score[selected[i]] = score[selected[j]] => selected[i] < selected[j]

\* C1 witness: a catalog written with two products of equal scan count and
\* with a product that the sort moved in front of an earlier row.
C1_Witness ==
    /\ pc = "done"
    /\ \E i, j \in 1..Len(selected) :
          i < j /\ Scans(input[selected[i]]) = Scans(input[selected[j]])
    /\ \E i, j \in 1..Len(selected) :
          i < j /\ selected[i] > selected[j]

\* C2: for a limit >= 0 the written products are exactly the first limit
\* elements of the stably descending-sorted accepted rows: their number and
\* productCount are min(limit, accepted rows), each is the item of its row,
\* they are sorted as in C1, and every accepted row left out ranks behind
\* every row kept.
C2_ExactTopSlice ==
    (pc = "done" /\ limit >= 0) =>
        LET verdict == Verdicts
            score == Scores
            accepted == {k \in CompletedNos : verdict[k] = "item"}
            kept == SelectedNos
        IN  /\ Len(catalog.products) = Min(limit, Cardinality(accepted))
            /\ catalog.productCount = Min(limit, Cardinality(accepted))
            /\ Len(selected) = Len(catalog.products)
            /\ Cardinality(kept) = Len(selected)
            /\ kept \subseteq accepted
            /\ \A i \in 1..Len(selected) :
                  catalog.products[i] = process_product(input[selected[i]]).item
            /\ \A i, j \in 1..Len(selected) :
                  i < j => \/ score[selected[i]] > score[selected[j]]
                           \/ score[selected[i]] = score[selected[j]] /\ selected[i] < selected[j]
            /\ \A k \in accepted \ kept : \A m \in kept :
                  \/ score[k] < score[m]
                  \/ score[k] = score[m] /\ m < k

\* C2 witness: limit 2 and three accepted rows with scores 10, 50, 30; the
\* catalog holds the 50-row then the 30-row.
C2_Witness ==
    /\ pc = "done"
    /\ limit = 2
    /\ Len(input) = 3
    /\ Verdicts = <<"item", "item", "item">>
    /\ Scores = <<10, 50, 30>>
    /\ selected = <<2, 3>>
    /\ catalog.productCount = 2

\* C3: process_product returns an item if and only if the trimmed code has
\* at least 8 characters, the trimmed product_name is not empty and one of
\* the parsed calories, protein, carbohydrates is not zero.
C3_ItemIffThreeConditions ==
    pc = "returned" =>
        (ret_row.status = "item" <=>
            /\ Len(Strip(TextOf(arg_row["code"]))) >= 8
            /\ Strip(TextOf(arg_row["product_name"])) # <<>>
            /\ \E c \in {"energy-kcal_100g", "proteins_100g", "carbohydrates_100g"} :
                  parse_nutrition_value(Get(arg_row, c, <<>>)).num # 0)

\* C4: a row whose lowercased countries_tags holds neither "united-states"
\* nor "en:united-states" is never passed to process_product, never in the
\* accumulation list and never the origin of a product of the catalog.
C4_ForeignRowsExcluded ==
    \A k \in 1..Len(input) :
        IsForeign(input[k]) =>
            /\ k \notin normalized
            /\ \A i \in 1..Len(products) : products[i].row_no # k
            /\ k \notin SelectedNos

\* C4 witness: a catalog with room left was written after a row was read
\* that has no US tag, that process_product would accept and that has more
\* scans than every product written.
C4_Witness ==
    /\ pc = "done"
    /\ 0 < Len(selected) /\ Len(selected) < limit
    /\ \E k \in 1..Len(input) :
          /\ IsForeign(input[k])
          /\ input[k]["countries_tags"] # None
          /\ process_product(input[k]).status = "item"
          /\ \A m \in SelectedNos : Scans(input[k]) > Scans(input[m])

\* C5: every nutrition field of every product of the written catalog is a
\* non-negative number.
C5_NutritionNonNegative ==
    pc = "done" =>
        \A i \in 1..Len(catalog.products) : \A f \in NutritionFields :
            catalog.products[i].nutrition[f].num >= 0

\* The reference result of C6.
ReferenceIngredients(text) ==
    IF ~IsStr(text) \/ Strip(text) = <<>> THEN <<>>
    ELSE LET found == {k \in 1..Len(Separators) : Contains(Separators[k], text)}
             first == CHOOSE k \in found : \A m \in found : k <= m
             list == IF found = {} THEN <<Lower(Strip(text))>>
                     ELSE CleanParts(Split(text, Separators[first]))
         IN  SubSeq(list, 1, Min(Len(list), 20))

\* C6: parse_ingredients returns the reference result: no entry for an empty
\* or blank text; else the trimmed, lowercased, non-empty fragments of the
\* split on the first separator of ", ", "; ", " - " that occurs; else the
\* whole trimmed, lowercased text; at most 20 entries.
C6_IngredientsMatchReference ==
    pc = "returned" => ret_text = ReferenceIngredients(arg_text)

\* C7 as claimed: skipped counts the rows rejected by the country filter
\* and the rows rejected by process_product, so the accumulated products
\* and skipped add up to the rows read.
C7_SkippedCountsEveryReject ==
    LET verdict == Verdicts
    IN  /\ skipped = Cardinality({k \in CompletedNos : verdict[k] \in {"foreign", "None"}})
        /\ Len(products) + skipped = Len(Completed)

\* C7 amended: skipped counts the rows rejected by process_product only; the
\* accumulated products and skipped add up to the rows that passed the
\* country filter.
C7_SkippedCountsNormalizerRejects ==
    LET verdict == Verdicts
    IN  /\ skipped = Cardinality({k \in CompletedNos : verdict[k] = "None"})
        /\ Len(products) + skipped =
              Cardinality({k \in CompletedNos : verdict[k] # "foreign"})

\* C7 witness: a row was dropped by the country filter, a row was rejected
\* by process_product and a row was accumulated.
C7_Witness ==
    /\ \E k \in CompletedNos : Verdicts[k] = "foreign"
    /\ \E k \in CompletedNos : Verdicts[k] = "None"
    /\ skipped >= 1
    /\ Len(products) >= 1

\* C8: no row aborts the run: every row read is dropped, rejected or
\* accumulated, and no exception leaves the loop.
C8_NoRowAborts ==
    /\ pc # "aborted"
    /\ \A k \in 1..Len(input) : Verdicts[k] \in {"foreign", "None", "item"}

\* The row is untagged: categories_en is absent, None, empty, blank, or its
\* first comma-separated entry is blank.
Untagged(row) ==
    Strip(Split(TextOf(row["categories_en"]), <<",">>)[1]) = <<>>

\* C9: the category of every item process_product emits is a non-empty
\* lowercase string: the trimmed, lowercased first entry of categories_en
\* for a tagged row, "other" for an untagged one.
C9_CategoryNonEmptyLowercase ==
    (pc = "returned" /\ ret_row.status = "item") =>
        /\ ret_row.item.category # <<>>
        /\ ret_row.item.category = Lower(ret_row.item.category)
        /\ ret_row.item.category =
              IF Untagged(arg_row) THEN OTHER_CATEGORY
              ELSE Lower(Strip(Split(arg_row["categories_en"], <<",">>)[1]))

\* C10: the written catalog holds at most max(limit, 0) products, for every
\* integer limit.
C10_LimitIsMaximum ==
    pc = "done" => Len(catalog.products) <= Max(limit, 0)

====
